---- MODULE Spec2Model ----
(***************************************************************************)
(* Model of pandera/schema_statistics.py: inference of column and index    *)
(* statistics from pandas objects, and the two-way mapping between check   *)
(* statistics and Check objects.                                           *)
(*                                                                         *)
(* Python values are tagged records: None, dict (an insertion-ordered      *)
(* sequence of key/value items with distinct keys), list, and raised       *)
(* exceptions.  Every function of the module is an operator; the state     *)
(* machine calls one function per step on an input drawn from a bounded    *)
(* set and records the call in (op, arg, result, warnings); stats_in keeps  *)
(* the mapping a composed call started from.                               *)
(***************************************************************************)
EXTENDS Integers, Sequences, FiniteSets

VARIABLES op, arg, result, warnings, stats_in

vars == <<op, arg, result, warnings, stats_in>>

(***************************************************************************)
(* Bounds of the model.                                                    *)
(***************************************************************************)
\* Scalar statistic values and array cells range over 0..MaxVal.
MaxVal == 1
\* Longest sequence of Check objects handed to parse_checks.
MaxChecks == 3
\* Longest array of cells.
MaxLen == 2
\* Most columns of a dataframe or of a dataframe schema.
MaxCols == 2
\* Most levels of a MultiIndex.
MaxLevels == 2

(***************************************************************************)
(* Python values.                                                          *)
(***************************************************************************)
None == [t |-> "None"]

Dict(items) == [t |-> "dict", items |-> items]

List(elems) == [t |-> "list", elems |-> elems]

IsDict(v) == v.t = "dict"

IsList(v) == v.t = "list"

\* Truthiness of a container: `x if x else None`.
Truthy(v) == (IsDict(v) /\ v.items # <<>>) \/ (IsList(v) /\ v.elems # <<>>)

\* An item of a dict is the pair <<key, value>>.
Keys(d) == {d.items[i][1] : i \in 1..Len(d.items)}

\* `k in d`
Has(d, k) == \E i \in 1..Len(d.items) : d.items[i][1] = k

\* `d[k]` for a key that is present
Get(d, k) == d.items[CHOOSE i \in 1..Len(d.items) : d.items[i][1] = k][2]

\* `d[k] = v`: an existing key keeps its position, a new key goes last.
DictSet(d, k, v) ==
    IF Has(d, k)
    THEN Dict([i \in 1..Len(d.items) |->
                 IF d.items[i][1] = k THEN <<k, v>> ELSE d.items[i]])
    ELSE Dict(Append(d.items, <<k, v>>))

\* `d1 == d2` for dicts: same keys with equal values, whatever the order.
DictEq(d1, d2) ==
    /\ Keys(d1) = Keys(d2)
    /\ \A k \in Keys(d1) : Get(d1, k) = Get(d2, k)

\* The sequences over S of length at most n.
SeqsUpTo(S, n) == UNION {[1..m -> S] : m \in 0..n}

(***************************************************************************)
(* Check objects (pandera.checks.Check): a name and the statistics view    *)
(* of the constructor's parameter.                                         *)
(***************************************************************************)
greater_than_or_equal_to(x) ==
    [name |-> "greater_than_or_equal_to", statistics |-> [min_value |-> x]]

less_than_or_equal_to(x) ==
    [name |-> "less_than_or_equal_to", statistics |-> [max_value |-> x]]

isin(x) == [name |-> "isin", statistics |-> [allowed_values |-> x]]

\* A check kind the registry does not know.
greater_than(x) == [name |-> "greater_than", statistics |-> [min_value |-> x]]

(***************************************************************************)
(* The registry.                                                           *)
(***************************************************************************)
\* The keys of STATISTICS_TO_CHECKS in the dict's iteration order.
STATISTICS_TO_CHECKS == <<"min", "max", "levels">>

\* A faulty forward table, with the constructors of min and max exchanged:
\* the round trip does not survive it.
create_check_fn_exchanged(stat, x) ==
    CASE stat = "min" -> less_than_or_equal_to(x)
      [] stat = "max" -> greater_than_or_equal_to(x)
      [] stat = "levels" -> isin(x)

\* STATISTICS_TO_CHECKS[stat](x)
create_check_fn(stat, x) ==
    CASE stat = "min" -> greater_than_or_equal_to(x)
      [] stat = "max" -> less_than_or_equal_to(x)
      [] stat = "levels" -> isin(x)

\* A faulty reverse table that also registers greater_than, as a min.
CHECKS_TO_STATISTICS_with_greater_than ==
    [n \in {"greater_than_or_equal_to", "less_than_or_equal_to", "isin",
            "greater_than"} |->
        CASE n = "greater_than_or_equal_to" ->
                [stat_name |-> "min", key |-> "min_value"]
          [] n = "less_than_or_equal_to" ->
                [stat_name |-> "max", key |-> "max_value"]
          [] n = "isin" ->
                [stat_name |-> "levels", key |-> "allowed_values"]
          [] n = "greater_than" ->
                [stat_name |-> "min", key |-> "min_value"]]

\* Check name -> (statistic name, the key of check.statistics read by the
\* extractor lambda).
CHECKS_TO_STATISTICS ==
    [n \in {"greater_than_or_equal_to", "less_than_or_equal_to", "isin"} |->
        CASE n = "greater_than_or_equal_to" ->
                [stat_name |-> "min", key |-> "min_value"]
          [] n = "less_than_or_equal_to" ->
                [stat_name |-> "max", key |-> "max_value"]
          [] n = "isin" ->
                [stat_name |-> "levels", key |-> "allowed_values"]]

\* get_stat_fn(check) of the entry registered for check.name
get_stat_fn(check) == check.statistics[CHECKS_TO_STATISTICS[check.name].key]

(***************************************************************************)
(* parse_check_statistics                                                  *)
(***************************************************************************)
RECURSIVE build_checks(_, _)
\* The loop over STATISTICS_TO_CHECKS.items(), from entry i on.
build_checks(check_stats, i) ==
    IF i > Len(STATISTICS_TO_CHECKS) THEN <<>>
    ELSE LET stat == STATISTICS_TO_CHECKS[i] IN
         IF ~Has(check_stats, stat)
         THEN build_checks(check_stats, i + 1)
         ELSE <<create_check_fn(stat, Get(check_stats, stat))>>
                  \o build_checks(check_stats, i + 1)

RECURSIVE build_checks_in_given_order(_, _)
\* A loop over the items of check_stats instead of the forward table's.
build_checks_in_given_order(check_stats, i) ==
    IF i > Len(check_stats.items) THEN <<>>
    ELSE LET stat == check_stats.items[i][1] IN
         IF stat \notin {STATISTICS_TO_CHECKS[j] : j \in 1..Len(STATISTICS_TO_CHECKS)}
         THEN build_checks_in_given_order(check_stats, i + 1)
         ELSE <<create_check_fn(stat, check_stats.items[i][2])>>
                  \o build_checks_in_given_order(check_stats, i + 1)

\* A faulty parse_check_statistics that builds the rules in the order of the
\* mapping it is given.
parse_check_statistics_in_given_order(check_stats) ==
    IF check_stats = None THEN None
    ELSE LET checks == List(build_checks_in_given_order(check_stats, 1)) IN
         IF Truthy(checks) THEN checks ELSE None

parse_check_statistics(check_stats) ==
    IF check_stats = None THEN None
    ELSE LET checks == List(build_checks(check_stats, 1)) IN
         IF Truthy(checks) THEN checks ELSE None

(***************************************************************************)
(* parse_checks                                                            *)
(***************************************************************************)
RECURSIVE collect_checks_first_wins(_, _, _)
\* A faulty loop that keeps the first rule of each statistic.
collect_checks_first_wins(checks, check_statistics, _check_memo) ==
    IF checks = <<>>
    THEN [check_statistics |-> check_statistics, _check_memo |-> _check_memo]
    ELSE LET check == Head(checks) IN
         IF /\ check.name \in DOMAIN CHECKS_TO_STATISTICS
            /\ ~Has(check_statistics, CHECKS_TO_STATISTICS[check.name].stat_name)
         THEN LET stat_name == CHECKS_TO_STATISTICS[check.name].stat_name IN
              collect_checks_first_wins(
                  Tail(checks),
                  DictSet(check_statistics, stat_name, get_stat_fn(check)),
                  DictSet(_check_memo, stat_name, check))
         ELSE collect_checks_first_wins(Tail(checks), check_statistics,
                                        _check_memo)

RECURSIVE collect_checks(_, _, _)
\* The loop over checks: the pair (check_statistics, _check_memo) after it.
collect_checks(checks, check_statistics, _check_memo) ==
    IF checks = <<>>
    THEN [check_statistics |-> check_statistics, _check_memo |-> _check_memo]
    ELSE LET check == Head(checks) IN
         IF check.name \in DOMAIN CHECKS_TO_STATISTICS
         THEN LET stat_name == CHECKS_TO_STATISTICS[check.name].stat_name IN
              collect_checks(Tail(checks),
                             DictSet(check_statistics, stat_name,
                                     get_stat_fn(check)),
                             DictSet(_check_memo, stat_name, check))
         ELSE collect_checks(Tail(checks), check_statistics, _check_memo)

\* The exception of line 182, with the four values its message is built of.
IncompatibleChecks(min_check, max_check, min_value, max_value) ==
    [t |-> "ValueError", min_check |-> min_check, max_check |-> max_check,
     min_value |-> min_value, max_value |-> max_value]

\* Iterating over None.
TypeError == [t |-> "TypeError"]

\* Whether a value (a record) is a raised exception.
IsRaised(v) ==
    /\ "t" \in DOMAIN v
    /\ v.t \in {"ValueError", "TypeError", "AttributeError"}

\* A faulty parse_checks that also rejects min = max.
parse_checks_strict(checks) ==
    IF checks = None THEN TypeError
    ELSE LET c == collect_checks(checks.elems, Dict(<<>>), Dict(<<>>))
             check_statistics == c.check_statistics
             _check_memo == c._check_memo
         IN
         IF /\ Has(check_statistics, "min")
            /\ Has(check_statistics, "max")
            /\ Get(check_statistics, "min") >= Get(check_statistics, "max")
         THEN IncompatibleChecks(Get(_check_memo, "min"),
                                 Get(_check_memo, "max"),
                                 Get(check_statistics, "min"),
                                 Get(check_statistics, "max"))
         ELSE IF Truthy(check_statistics) THEN check_statistics ELSE None

RECURSIVE collect_checks_comparing(_, _, _)
\* A loop that compares min and max after every rule and stops at the first
\* incompatible pair.
collect_checks_comparing(checks, check_statistics, _check_memo) ==
    IF /\ Has(check_statistics, "min")
       /\ Has(check_statistics, "max")
       /\ Get(check_statistics, "min") > Get(check_statistics, "max")
    THEN IncompatibleChecks(Get(_check_memo, "min"),
                            Get(_check_memo, "max"),
                            Get(check_statistics, "min"),
                            Get(check_statistics, "max"))
    ELSE IF checks = <<>>
    THEN IF Truthy(check_statistics) THEN check_statistics ELSE None
    ELSE LET check == Head(checks) IN
         IF check.name \in DOMAIN CHECKS_TO_STATISTICS
         THEN LET stat_name == CHECKS_TO_STATISTICS[check.name].stat_name IN
              collect_checks_comparing(
                  Tail(checks),
                  DictSet(check_statistics, stat_name, get_stat_fn(check)),
                  DictSet(_check_memo, stat_name, check))
         ELSE collect_checks_comparing(Tail(checks), check_statistics,
                                       _check_memo)

\* A faulty parse_checks that raises as soon as the rules seen so far are
\* incompatible.
parse_checks_comparing_early(checks) ==
    IF checks = None THEN TypeError
    ELSE collect_checks_comparing(checks.elems, Dict(<<>>), Dict(<<>>))

parse_checks(checks) ==
    IF checks = None THEN TypeError
    ELSE LET c == collect_checks(checks.elems, Dict(<<>>), Dict(<<>>))
             check_statistics == c.check_statistics
             _check_memo == c._check_memo
         IN
         IF /\ Has(check_statistics, "min")
            /\ Has(check_statistics, "max")
            /\ Get(check_statistics, "min") > Get(check_statistics, "max")
         THEN IncompatibleChecks(Get(_check_memo, "min"),
                                 Get(_check_memo, "max"),
                                 Get(check_statistics, "min"),
                                 Get(check_statistics, "max"))
         ELSE IF Truthy(check_statistics) THEN check_statistics ELSE None

(***************************************************************************)
(* Semantic types (pandera.dtypes.PandasDtype), by member name.            *)
(***************************************************************************)
\* A faulty set of numeric types, without the unsigned integers.
NUMERIC_DTYPES_signed_only ==
    {"Float", "Float16", "Float32", "Float64",
     "Int", "Int8", "Int16", "Int32", "Int64",
     "DateTime"}

NUMERIC_DTYPES ==
    {"Float", "Float16", "Float32", "Float64",
     "Int", "Int8", "Int16", "Int32", "Int64",
     "UInt8", "UInt16", "UInt32", "UInt64",
     "DateTime"}

\* Members of the enumeration that schema_statistics.py does not name.
UnnamedDtypes == {"Bool", "String", "Timedelta"}

\* The members of the enumeration.
PandasDtype ==
    {"Float", "Float16", "Float32", "Float64",
     "Int", "Int8", "Int16", "Int32", "Int64",
     "UInt8", "UInt16", "UInt32", "UInt64",
     "DateTime", "Category", "Object"} \cup UnnamedDtypes

\* PandasDtype.from_str_alias, on the storage types of the model's arrays.
from_str_alias(alias) ==
    CASE alias = "int64" -> "Int64"
      [] alias = "float64" -> "Float64"
      [] alias = "datetime64[ns]" -> "DateTime"
      [] alias = "category" -> "Category"
      [] alias = "bool" -> "Bool"
      [] alias = "object" -> "Object"

\* PandasDtype.from_pandas_api_type, on the labels of pd.api.types.infer_dtype.
from_pandas_api_type(label) ==
    CASE label = "integer" -> "Int"
      [] label = "floating" -> "Float"
      [] label = "datetime64" -> "DateTime"
      [] label = "categorical" -> "Category"
      [] label = "boolean" -> "Bool"
      [] label = "string" -> "String"
      [] label = "mixed" -> "Object"

(***************************************************************************)
(* Arrays (pd.Series, pd.Index).  A cell is a value of 0..MaxVal or NaN;   *)
(* `inferred` is what pd.api.types.infer_dtype(x, skipna=True) says of the *)
(* cells.  A categorical Series has the accessor x.cat, a categorical      *)
(* Index the attribute x.categories; other arrays have neither.            *)
(***************************************************************************)
NaN == -1

HasAttr(x, attr) == attr \in DOMAIN x

\* x.isna().any()
isna_any(x) == \E i \in 1..Len(x.values) : x.values[i] = NaN

Valid(x) == {x.values[i] : i \in {j \in 1..Len(x.values) : x.values[j] # NaN}}

\* x.min(): missing cells are skipped; NaN when nothing is left.
array_min(x) ==
    IF Valid(x) = {} THEN NaN
    ELSE CHOOSE m \in Valid(x) : \A v \in Valid(x) : m <= v

\* x.max()
array_max(x) ==
    IF Valid(x) = {} THEN NaN
    ELSE CHOOSE m \in Valid(x) : \A v \in Valid(x) : m >= v

AttributeError == [t |-> "AttributeError"]

_get_array_type(x) ==
    LET dtype == from_str_alias(x.dtype) IN
    IF dtype = "Object" THEN from_pandas_api_type(x.inferred) ELSE dtype

_get_array_check_statistics(x, dtype) ==
    LET check_stats ==
            IF dtype \in NUMERIC_DTYPES \/ dtype = "DateTime"
            THEN Dict(<< <<"min", array_min(x)>>, <<"max", array_max(x)>> >>)
            ELSE IF dtype = "Category"
            THEN IF HasAttr(x, "cat")
                 THEN Dict(<< <<"levels", x.cat.categories>> >>)
                 ELSE IF HasAttr(x, "categories")
                 THEN Dict(<< <<"levels", x.categories>> >>)
                 ELSE AttributeError
            ELSE Dict(<<>>)
    IN
    IF IsRaised(check_stats) \/ Truthy(check_stats) THEN check_stats ELSE None

(***************************************************************************)
(* Inference from data.                                                    *)
(***************************************************************************)
\* The records of a sequence whose "checks" could not be computed, and the
\* exception of the first of them: the one that leaves the comprehension.
Raised(stats) == {i \in 1..Len(stats) : IsRaised(stats[i].checks)}

FirstRaised(stats) ==
    stats[CHOOSE i \in Raised(stats) : \A j \in Raised(stats) : i <= j].checks

infer_series_statistics(series) ==
    LET dtype == _get_array_type(series)
        checks == _get_array_check_statistics(series, dtype)
    IN
    IF IsRaised(checks) THEN checks
    ELSE [pandas_dtype |-> dtype,
          nullable |-> isna_any(series),
          checks |-> checks,
          name |-> series.name]

\* The nested function of infer_index_statistics.
_index_stats(index_level) ==
    LET dtype == _get_array_type(index_level) IN
    [pandas_dtype |-> dtype,
     nullable |-> isna_any(index_level),
     checks |-> _get_array_check_statistics(index_level, dtype),
     name |-> index_level.name]

IndexWarning(index) == [category |-> "UserWarning", type |-> index.cls]

\* A faulty infer_index_statistics whose loop stops one level early.
infer_index_statistics_short(index) ==
    LET index_statistics ==
            IF index.cls = "MultiIndex"
            THEN [i \in 1..(Len(index.levels) - 1) |->
                    _index_stats(index.levels[i])]
            ELSE IF index.cls = "Index"
            THEN <<_index_stats(index)>>
            ELSE <<>>
        emitted ==
            IF index.cls \in {"MultiIndex", "Index"} THEN <<>>
            ELSE <<IndexWarning(index)>>
    IN
    [value |-> IF Raised(index_statistics) # {} THEN FirstRaised(index_statistics)
               ELSE IF index_statistics # <<>> THEN List(index_statistics)
               ELSE None,
     warnings |-> emitted]

\* The value returned and the warnings emitted.
infer_index_statistics(index) ==
    LET index_statistics ==
            IF index.cls = "MultiIndex"
            THEN [i \in 1..Len(index.levels) |-> _index_stats(index.levels[i])]
            ELSE IF index.cls = "Index"
            THEN <<_index_stats(index)>>
            ELSE <<>>
        emitted ==
            IF index.cls \in {"MultiIndex", "Index"} THEN <<>>
            ELSE <<IndexWarning(index)>>
    IN
    [value |-> IF Raised(index_statistics) # {} THEN FirstRaised(index_statistics)
               ELSE IF index_statistics # <<>> THEN List(index_statistics)
               ELSE None,
     warnings |-> emitted]

\* The mapping column name -> statistics record, from the records computed
\* for the columns in order.
ColumnsDict(stats) ==
    Dict([i \in 1..Len(stats) |->
            <<stats[i].col, [pandas_dtype |-> stats[i].pandas_dtype,
                             nullable |-> stats[i].nullable,
                             checks |-> stats[i].checks]>>])

\* df.columns is the sequence of <<name, Series>> pairs in column order.
infer_dataframe_statistics(df) ==
    LET column_statistics ==
            [i \in 1..Len(df.columns) |->
                LET col == df.columns[i][1]
                    x == df.columns[i][2]
                    dtype == _get_array_type(x)
                IN
                [col |-> col,
                 pandas_dtype |-> dtype,
                 nullable |-> isna_any(x),
                 checks |-> _get_array_check_statistics(x, dtype)]]
        index_statistics == infer_index_statistics(df.index)
    IN
    IF Raised(column_statistics) # {}
    THEN [value |-> FirstRaised(column_statistics), warnings |-> <<>>]
    ELSE [value |->
            IF IsRaised(index_statistics.value) THEN index_statistics.value
            ELSE [columns |-> IF column_statistics # <<>>
                              THEN ColumnsDict(column_statistics) ELSE None,
                  index |-> index_statistics.value],
          warnings |-> index_statistics.warnings]

(***************************************************************************)
(* Decomposition of schemas.                                               *)
(***************************************************************************)
_get_series_base_schema_statistics(series_schema_base) ==
    [pandas_dtype |-> series_schema_base._pandas_dtype,
     nullable |-> series_schema_base.nullable,
     checks |-> parse_checks(series_schema_base.checks),
     name |-> series_schema_base.name]

get_index_schema_statistics(index_schema_component) ==
    LET index_components ==
            IF HasAttr(index_schema_component, "indexes")
            THEN index_schema_component.indexes
            ELSE <<index_schema_component>>
        stats == [i \in 1..Len(index_components) |->
                    _get_series_base_schema_statistics(index_components[i])]
    IN
    IF Raised(stats) # {} THEN FirstRaised(stats) ELSE List(stats)

get_series_schema_statistics(series_schema) ==
    LET stats == _get_series_base_schema_statistics(series_schema) IN
    IF IsRaised(stats.checks) THEN stats.checks ELSE stats

\* A faulty get_dataframe_schema_statistics without the test for a schema
\* that declares no index: the attributes of None are read.
get_dataframe_schema_statistics_unguarded(dataframe_schema) ==
    LET columns ==
            [i \in 1..Len(dataframe_schema.columns) |->
                LET col_name == dataframe_schema.columns[i][1]
                    column == dataframe_schema.columns[i][2]
                IN
                [col |-> col_name,
                 pandas_dtype |-> column._pandas_dtype,
                 nullable |-> column.nullable,
                 checks |-> parse_checks(column.checks)]]
        index ==
            IF dataframe_schema.index = None THEN AttributeError
            ELSE get_index_schema_statistics(dataframe_schema.index)
    IN
    IF Raised(columns) # {} THEN FirstRaised(columns)
    ELSE IF IsRaised(index) THEN index
    ELSE [columns |-> ColumnsDict(columns), index |-> index]

\* dataframe_schema.columns is the sequence of <<col_name, column>> pairs.
get_dataframe_schema_statistics(dataframe_schema) ==
    LET columns ==
            [i \in 1..Len(dataframe_schema.columns) |->
                LET col_name == dataframe_schema.columns[i][1]
                    column == dataframe_schema.columns[i][2]
                IN
                [col |-> col_name,
                 pandas_dtype |-> column._pandas_dtype,
                 nullable |-> column.nullable,
                 checks |-> parse_checks(column.checks)]]
        index ==
            IF dataframe_schema.index = None THEN None
            ELSE get_index_schema_statistics(dataframe_schema.index)
    IN
    IF Raised(columns) # {} THEN FirstRaised(columns)
    ELSE IF IsRaised(index) THEN index
    ELSE [columns |-> ColumnsDict(columns), index |-> index]

(***************************************************************************)
(* Inputs.                                                                 *)
(***************************************************************************)
Scalars == 0..MaxVal

\* Level lists of a categorical statistic.
LevelLists == {<<>>, <<1>>, <<0, 1>>}

\* The items a statistics mapping may hold; "mean" is not a statistic of
\* the registry.
StatItems ==
    ({"min", "max", "mean"} \X Scalars) \cup ({"levels"} \X LevelLists)

DistinctKeys(items) ==
    \A i, j \in 1..Len(items) : items[i][1] = items[j][1] => i = j

\* The statistics mappings, in every insertion order.
StatDicts == {Dict(s) : s \in {s \in SeqsUpTo(StatItems, 4) : DistinctKeys(s)}}

Checks ==
    {greater_than_or_equal_to(v) : v \in Scalars}
        \cup {less_than_or_equal_to(v) : v \in Scalars}
        \cup {greater_than(v) : v \in Scalars}
        \cup {isin(l) : l \in LevelLists}

CheckLists == {List(s) : s \in SeqsUpTo(Checks, MaxChecks)}

Names == {"a", "b"}

\* Storage type and infer_dtype label of an array.  The label only matters
\* for object storage.
TypeDescs ==
    {<<"int64", "integer">>, <<"float64", "floating">>,
     <<"datetime64[ns]", "datetime64">>, <<"bool", "boolean">>,
     <<"object", "integer">>, <<"object", "string">>, <<"object", "mixed">>}

\* Integer and boolean storage holds no missing value.
Cells(alias) == IF alias \in {"int64", "bool"} THEN Scalars ELSE Scalars \cup {NaN}

Array(cls, td, values, name) ==
    [cls |-> cls, dtype |-> td[1], inferred |-> td[2], values |-> values,
     name |-> name]

CategoricalSeries(values, name, categories) ==
    [cls |-> "Series", dtype |-> "category", inferred |-> "categorical",
     values |-> values, name |-> name, cat |-> [categories |-> categories]]

CategoricalIndex(values, name, categories) ==
    [cls |-> "Index", dtype |-> "category", inferred |-> "categorical",
     values |-> values, name |-> name, categories |-> categories]

\* The cells of a categorical array are declared categories or missing.
CategoricalCells(categories) ==
    {categories[i] : i \in 1..Len(categories)} \cup {NaN}

SeriesArrays ==
    {Array("Series", td, v, n) :
        td \in TypeDescs, v \in SeqsUpTo(Scalars \cup {NaN}, MaxLen), n \in Names}
        \cup UNION {{CategoricalSeries(v, n, c) :
                        v \in SeqsUpTo(CategoricalCells(c), MaxLen), n \in Names} :
                    c \in LevelLists}

IndexArrays ==
    {Array("Index", td, v, n) :
        td \in TypeDescs, v \in SeqsUpTo(Scalars \cup {NaN}, MaxLen), n \in Names}
        \cup UNION {{CategoricalIndex(v, n, c) :
                        v \in SeqsUpTo(CategoricalCells(c), MaxLen), n \in Names} :
                    c \in LevelLists}

WellFormed(x) == \A i \in 1..Len(x.values) : x.values[i] \in Cells(x.dtype)

Arrays == {x \in SeriesArrays \cup IndexArrays : WellFormed(x)}

\* The levels a MultiIndex is built of, and the indexes.
SampleLevels ==
    {Array("Index", <<"int64", "integer">>, <<0, 1>>, "a"),
     Array("Index", <<"object", "string">>, <<NaN, 1>>, "b"),
     CategoricalIndex(<<1>>, "a", <<0, 1>>)}

MultiIndexes ==
    {[cls |-> "MultiIndex", levels |-> l] :
        l \in SeqsUpTo(SampleLevels, MaxLevels) \ {<<>>}}

\* Objects that are neither a pd.MultiIndex nor a pd.Index.
NotIndexes == {[cls |-> "ndarray"], [cls |-> "list"]}

Indexes == {x \in Arrays : x.cls = "Index"} \cup MultiIndexes \cup NotIndexes

\* The columns dataframes are built of.
SampleColumns ==
    {Array("Series", <<"int64", "integer">>, <<1, 0>>, "a"),
     Array("Series", <<"float64", "floating">>, <<NaN, 1>>, "a"),
     Array("Series", <<"object", "mixed">>, <<0, 1>>, "a"),
     CategoricalSeries(<<1>>, "a", <<0, 1>>)}

ColNames == <<"a", "b", "c", "d">>

\* Column i of a dataframe or of a schema is named ColNames[i].
Named(cols) == [i \in 1..Len(cols) |-> <<ColNames[i], cols[i]>>]

DataFrames ==
    {[columns |-> Named(cols), index |-> index] :
        cols \in SeqsUpTo(SampleColumns, MaxCols),
        index \in SampleLevels \cup MultiIndexes \cup NotIndexes}

\* Schema components (Column, Index, SeriesSchema).
Component(dtype, nullable, checks, name) ==
    [_pandas_dtype |-> dtype, nullable |-> nullable, checks |-> checks,
     name |-> name]

SchemaDtypes == {"Int", "Category"}

Components ==
    {Component(d, n, c, nm) :
        d \in SchemaDtypes, n \in BOOLEAN,
        c \in {l \in CheckLists : Len(l.elems) < MaxChecks}, nm \in Names}

\* The components dataframe schemas and MultiIndex schemas are built of.
SampleChecks ==
    {List(<<>>),
     List(<<greater_than_or_equal_to(0), less_than_or_equal_to(1)>>),
     List(<<greater_than_or_equal_to(1), less_than_or_equal_to(0)>>)}

SampleComponents ==
    {Component("Int", FALSE, c, "a") : c \in SampleChecks}
        \cup {Component("Category", TRUE, List(<<isin(<<0, 1>>)>>), "b")}

MultiIndexSchemas ==
    {[indexes |-> l] : l \in SeqsUpTo(SampleComponents, MaxLevels)}

DataFrameSchemas ==
    {[columns |-> Named(cols), index |-> index] :
        cols \in SeqsUpTo(SampleComponents, MaxCols),
        index \in {None} \cup SampleComponents \cup MultiIndexSchemas}

(***************************************************************************)
(* The state machine: one action per function of the module.               *)
(***************************************************************************)
Init ==
    /\ op = "init"
    /\ arg = None
    /\ result = None
    /\ warnings = <<>>
    /\ stats_in = None

\* The functions keep no state between calls, so every call starts from the
\* initial state; it records its argument, what it returned or raised, and
\* the warnings it emitted.
InferDataframeStatistics ==
    /\ op = "init"
    /\ \E df \in DataFrames :
        LET r == infer_dataframe_statistics(df) IN
        /\ op' = "infer_dataframe_statistics"
        /\ arg' = df
        /\ result' = r.value
        /\ warnings' = r.warnings
    /\ UNCHANGED stats_in

InferSeriesStatistics ==
    /\ op = "init"
    /\ \E series \in {x \in Arrays : x.cls = "Series"} :
        /\ op' = "infer_series_statistics"
        /\ arg' = series
        /\ result' = infer_series_statistics(series)
    /\ UNCHANGED <<warnings, stats_in>>

InferIndexStatistics ==
    /\ op = "init"
    /\ \E index \in Indexes :
        LET r == infer_index_statistics(index) IN
        /\ op' = "infer_index_statistics"
        /\ arg' = index
        /\ result' = r.value
        /\ warnings' = r.warnings
    /\ UNCHANGED stats_in

ParseCheckStatistics ==
    /\ op = "init"
    /\ \E check_stats \in StatDicts \cup {None} :
        /\ op' = "parse_check_statistics"
        /\ arg' = check_stats
        /\ result' = parse_check_statistics(check_stats)
    /\ UNCHANGED <<warnings, stats_in>>

GetDataframeSchemaStatistics ==
    /\ op = "init"
    /\ \E dataframe_schema \in DataFrameSchemas :
        /\ op' = "get_dataframe_schema_statistics"
        /\ arg' = dataframe_schema
        /\ result' = get_dataframe_schema_statistics(dataframe_schema)
    /\ UNCHANGED <<warnings, stats_in>>

GetIndexSchemaStatistics ==
    /\ op = "init"
    /\ \E index_schema_component \in Components \cup MultiIndexSchemas :
        /\ op' = "get_index_schema_statistics"
        /\ arg' = index_schema_component
        /\ result' = get_index_schema_statistics(index_schema_component)
    /\ UNCHANGED <<warnings, stats_in>>

GetSeriesSchemaStatistics ==
    /\ op = "init"
    /\ \E series_schema \in Components :
        /\ op' = "get_series_schema_statistics"
        /\ arg' = series_schema
        /\ result' = get_series_schema_statistics(series_schema)
    /\ UNCHANGED <<warnings, stats_in>>

ParseChecks ==
    /\ op = "init"
    /\ \E checks \in CheckLists :
        /\ op' = "parse_checks"
        /\ arg' = checks
        /\ result' = parse_checks(checks)
    /\ UNCHANGED <<warnings, stats_in>>

\* parse_checks(parse_check_statistics(S)): what the previous call returned
\* is decomposed again; stats_in keeps S.
ParseChecksOfParsed ==
    /\ op = "parse_check_statistics"
    /\ op' = "parse_checks"
    /\ arg' = result
    /\ result' = parse_checks(result)
    /\ stats_in' = arg
    /\ UNCHANGED warnings

GetArrayCheckStatistics ==
    /\ op = "init"
    /\ \E x \in Arrays, dtype \in PandasDtype :
        /\ op' = "_get_array_check_statistics"
        /\ arg' = [x |-> x, dtype |-> dtype]
        /\ result' = _get_array_check_statistics(x, dtype)
    /\ UNCHANGED <<warnings, stats_in>>

Next ==
    \/ InferDataframeStatistics
    \/ InferSeriesStatistics
    \/ InferIndexStatistics
    \/ ParseCheckStatistics
    \/ GetDataframeSchemaStatistics
    \/ GetIndexSchemaStatistics
    \/ GetSeriesSchemaStatistics
    \/ ParseChecks
    \/ ParseChecksOfParsed
    \/ GetArrayCheckStatistics

Spec == Init /\ [][Next]_vars

(***************************************************************************)
(* Properties.  They are stated on the recorded calls, in terms of the     *)
(* arguments, and do not use the operators above unless said.              *)
(***************************************************************************)
Recognized == {"min", "max", "levels"}

Registered == {"greater_than_or_equal_to", "less_than_or_equal_to", "isin"}

\* The rule kind built for a statistic, and the statistic read from a kind.
KindOf(stat) ==
    CASE stat = "min" -> "greater_than_or_equal_to"
      [] stat = "max" -> "less_than_or_equal_to"
      [] stat = "levels" -> "isin"

\* The parameter a registered rule was built with.
ParamOf(check) ==
    CASE check.name = "greater_than_or_equal_to" -> check.statistics.min_value
      [] check.name = "less_than_or_equal_to" -> check.statistics.max_value
      [] check.name = "isin" -> check.statistics.allowed_values

\* The positions of the rules of a kind, and the last of them (0: none).
Positions(checks, kind) == {i \in 1..Len(checks) : checks[i].name = kind}

LastOf(checks, kind) ==
    IF Positions(checks, kind) = {} THEN 0
    ELSE CHOOSE i \in Positions(checks, kind) :
            \A j \in Positions(checks, kind) : j <= i

\* parse_checks was called on a sequence of rules.
ParsedRules == op = "parse_checks" /\ IsList(arg)

\* parse_checks was called on what parse_check_statistics made of the
\* mapping stats_in, whose names are all recognized.
RoundTripped ==
    /\ op = "parse_checks"
    /\ IsDict(stats_in)
    /\ Keys(stats_in) \subseteq Recognized

\* C1 as stated: for every statistics mapping S of recognized names,
\* parse_checks(parse_check_statistics(S)) returns a mapping equal to S.
RoundTripAll ==
    RoundTripped => IsDict(result) /\ DictEq(result, stats_in)

Compatible(stats) ==
    Has(stats, "min") /\ Has(stats, "max") => Get(stats, "min") <= Get(stats, "max")

\* C1 amended: for every non-empty statistics mapping S of recognized names
\* in which min <= max when both are present,
\* parse_checks(parse_check_statistics(S)) returns a mapping equal to S; the
\* empty mapping and a mapping with min > max make the composition raise.
RoundTripCompatible ==
    RoundTripped =>
        IF Keys(stats_in) # {} /\ Compatible(stats_in)
        THEN IsDict(result) /\ DictEq(result, stats_in)
        ELSE IsRaised(result)

\* A mapping with all three statistics, inserted in another order than the
\* forward table's, came back equal.
RoundTripWitness ==
    /\ RoundTripped
    /\ Keys(stats_in) = Recognized
    /\ stats_in.items[1][1] = "levels"
    /\ Get(stats_in, "min") < Get(stats_in, "max")
    /\ IsDict(result)
    /\ DictEq(result, stats_in)

\* C2: parse_checks raises exactly when the rules give both a min and a max
\* with min > max, and the error carries both rules and both values; it does
\* not raise when min <= max or when one of the two bounds is missing, and
\* it raises for nothing else.
IncompatibilityDetection ==
    ParsedRules =>
        LET checks == arg.elems
            lower == Positions(checks, "greater_than_or_equal_to")
            upper == Positions(checks, "less_than_or_equal_to")
        IN
        /\ IsRaised(result) =>
              /\ result.t = "ValueError"
              /\ result.min_value > result.max_value
              /\ \E i \in lower :
                    /\ result.min_check = checks[i]
                    /\ result.min_value = checks[i].statistics.min_value
              /\ \E j \in upper :
                    /\ result.max_check = checks[j]
                    /\ result.max_value = checks[j].statistics.max_value
        /\ IsDict(result) /\ Has(result, "min") /\ Has(result, "max") =>
              Get(result, "min") <= Get(result, "max")
        /\ lower = {} \/ upper = {} => ~IsRaised(result)
        /\ (\A i \in lower, j \in upper :
                checks[i].statistics.min_value <= checks[j].statistics.max_value)
              => ~IsRaised(result)
        /\ (/\ lower # {}
            /\ upper # {}
            /\ \A i \in lower, j \in upper :
                  checks[i].statistics.min_value > checks[j].statistics.max_value)
              => IsRaised(result)

\* at-least(1) with at-most(0) raised, naming both rules and both values.
IncompatibilityWitness ==
    /\ ParsedRules
    /\ arg.elems = <<greater_than_or_equal_to(1), less_than_or_equal_to(0)>>
    /\ result = IncompatibleChecks(arg.elems[1], arg.elems[2], 1, 0)

\* An empty mapping or an empty list.
EmptyContainer(v) ==
    /\ "t" \in DOMAIN v
    /\ \/ v.t = "dict" /\ v.items = <<>>
       \/ v.t = "list" /\ v.elems = <<>>

\* No record of a list of statistics records has empty checks.
NoEmptyChecks(records) ==
    IsList(records) =>
        \A i \in 1..Len(records.elems) : ~EmptyContainer(records.elems[i].checks)

\* C3: no extraction or aggregation function returns an empty mapping or
\* an empty sequence, as its result or in a field of it, where it has
\* nothing to report: it returns None there.
AbsenceDiscipline ==
    /\ op \in {"parse_check_statistics", "parse_checks",
                "_get_array_check_statistics"}
          => ~EmptyContainer(result)
    /\ op \in {"infer_index_statistics", "get_index_schema_statistics"}
          => ~EmptyContainer(result) /\ NoEmptyChecks(result)
    /\ op \in {"infer_series_statistics", "get_series_schema_statistics"}
          /\ ~IsRaised(result)
          => ~EmptyContainer(result.checks)
    /\ op \in {"infer_dataframe_statistics", "get_dataframe_schema_statistics"}
          /\ ~IsRaised(result)
          => /\ ~EmptyContainer(result.columns)
             /\ IsDict(result.columns) =>
                   \A i \in 1..Len(result.columns.items) :
                       ~EmptyContainer(result.columns.items[i][2].checks)
             /\ ~EmptyContainer(result.index)
             /\ NoEmptyChecks(result.index)

\* The statistics of the forward table that a mapping holds, in the
\* table's order.
Present(stats) ==
    SelectSeq(<<"min", "max", "levels">>, LAMBDA stat : stat \in Keys(stats))

\* C4: parse_check_statistics returns None for None; otherwise one rule for
\* each statistic of the forward table the mapping holds, in the order min,
\* max, levels whatever the mapping's own order, other names being ignored;
\* and None, never an empty sequence, when no rule was built.
ParseCheckStatisticsContract ==
    op = "parse_check_statistics" =>
        IF arg = None THEN result = None
        ELSE IF Present(arg) = <<>> THEN result = None
        ELSE /\ IsList(result)
             /\ Len(result.elems) = Len(Present(arg))
             /\ \A i \in 1..Len(Present(arg)) :
                   /\ result.elems[i].name = KindOf(Present(arg)[i])
                   /\ ParamOf(result.elems[i]) = Get(arg, Present(arg)[i])

\* A mapping inserted as levels, an unknown name, min gave the rules for min
\* and levels, in that order.
ParseCheckStatisticsWitness ==
    /\ op = "parse_check_statistics"
    /\ IsDict(arg)
    /\ Len(arg.items) = 3
    /\ arg.items[1][1] = "levels"
    /\ arg.items[2][1] = "mean"
    /\ arg.items[3][1] = "min"
    /\ IsList(result)
    /\ Len(result.elems) = 2
    /\ result.elems[1].name = "greater_than_or_equal_to"
    /\ result.elems[2].name = "isin"

IsIndexClass(index) == index.cls \in {"MultiIndex", "Index"}

\* The record of one index level: its resolved type, whether a cell is
\* missing, its check statistics and its name.
LevelRecord(level) ==
    [pandas_dtype |-> _get_array_type(level),
     nullable |-> (\E i \in 1..Len(level.values) : level.values[i] = NaN),
     checks |-> _get_array_check_statistics(level, _get_array_type(level)),
     name |-> level.name]

\* C5: infer_index_statistics gives, for a MultiIndex of n levels, n records
\* with the record of level i at position i; for a single-level index one
\* record; for any other object a warning and None, without raising, so that
\* infer_dataframe_statistics still returns the columns' statistics, with
\* index None.
InferIndexContract ==
    /\ op = "infer_index_statistics" =>
          IF arg.cls = "MultiIndex"
          THEN /\ IsList(result)
               /\ Len(result.elems) = Len(arg.levels)
               /\ \A i \in 1..Len(arg.levels) :
                     result.elems[i] = LevelRecord(arg.levels[i])
          ELSE IF arg.cls = "Index"
          THEN IsList(result) /\ result.elems = <<LevelRecord(arg)>>
          ELSE result = None /\ Len(warnings) = 1
    /\ op = "infer_dataframe_statistics" /\ ~IsIndexClass(arg.index) =>
          /\ ~IsRaised(result)
          /\ result.index = None
          /\ Len(warnings) = 1
          /\ IF arg.columns = <<>> THEN result.columns = None
             ELSE /\ IsDict(result.columns)
                  /\ Len(result.columns.items) = Len(arg.columns)
                  /\ \A i \in 1..Len(arg.columns) :
                        /\ result.columns.items[i][1] = arg.columns[i][1]
                        /\ result.columns.items[i][2].pandas_dtype
                              = _get_array_type(arg.columns[i][2])

\* A MultiIndex of an integer level and a categorical level gave two
\* records, in level order.
InferIndexWitness ==
    /\ op = "infer_index_statistics"
    /\ arg.cls = "MultiIndex"
    /\ Len(arg.levels) = 2
    /\ IsList(result)
    /\ Len(result.elems) = 2
    /\ result.elems[1].pandas_dtype = "Int64"
    /\ result.elems[2].pandas_dtype = "Category"

IntegerFamily ==
    {"Int", "Int8", "Int16", "Int32", "Int64",
     "UInt8", "UInt16", "UInt32", "UInt64"}

FloatFamily == {"Float", "Float16", "Float32", "Float64"}

\* The cells of an array that are not missing.
Cells_(x) == {x.values[i] : i \in 1..Len(x.values)} \ {NaN}

\* m is the least (sign = 1) or greatest (sign = -1) cell, NaN for no cell.
Extreme(x, m, sign) ==
    IF Cells_(x) = {} THEN m = NaN
    ELSE m \in Cells_(x) /\ \A v \in Cells_(x) : sign * m <= sign * v

\* The array has declared categories.
Categorical(x) == HasAttr(x, "cat") \/ HasAttr(x, "categories")

Declared(x) == IF HasAttr(x, "cat") THEN x.cat.categories ELSE x.categories

\* C6: _get_array_check_statistics returns exactly {min, max}, the array's
\* minimum and maximum, for a type of the integer family, the float family
\* or datetime; exactly {levels}, the declared categories in order, for the
\* categorical type (of an array that has categories); None for every other
\* type.
ArrayCheckStatisticsPolicy ==
    op = "_get_array_check_statistics" =>
        IF arg.dtype \in IntegerFamily \cup FloatFamily \cup {"DateTime"}
        THEN /\ IsDict(result)
             /\ Len(result.items) = 2
             /\ Keys(result) = {"min", "max"}
             /\ Extreme(arg.x, Get(result, "min"), 1)
             /\ Extreme(arg.x, Get(result, "max"), -1)
        ELSE IF arg.dtype = "Category"
        THEN Categorical(arg.x) =>
                /\ IsDict(result)
                /\ Keys(result) = {"levels"}
                /\ Get(result, "levels") = Declared(arg.x)
        ELSE result = None

\* An unsigned-integer array with two different cells gave its min and max.
ArrayCheckStatisticsWitness ==
    /\ op = "_get_array_check_statistics"
    /\ arg.dtype = "UInt64"
    /\ arg.x.values = <<1, 0>>
    /\ IsDict(result)
    /\ Get(result, "min") = 0
    /\ Get(result, "max") = 1

\* The record a schema component decomposes to; parse_checks is the
\* operator above.
ComponentRecord(component) ==
    [pandas_dtype |-> component._pandas_dtype,
     nullable |-> component.nullable,
     checks |-> parse_checks(component.checks),
     name |-> component.name]

\* The components of a declared index.
IndexComponents(index) ==
    IF HasAttr(index, "indexes") THEN index.indexes ELSE <<index>>

\* Some declared rule set of the schema is incompatible.
SchemaIncompatible(schema) ==
    \/ \E i \in 1..Len(schema.columns) :
          IsRaised(parse_checks(schema.columns[i][2].checks))
    \/ /\ schema.index # None
       /\ \E i \in 1..Len(IndexComponents(schema.index)) :
             IsRaised(parse_checks(IndexComponents(schema.index)[i].checks))

\* C7: get_dataframe_schema_statistics returns one record per declared
\* column, keyed by the column's name, with the declared type and nullable
\* and with checks = parse_checks(declared rules); index is None for no
\* declared index, one record per sub-component in declared order for an
\* index with sub-components, one record otherwise.
\* get_series_schema_statistics returns the same record, with the name.
\* (Incompatible declared rules raise instead.)
SchemaDecomposition ==
    /\ op = "get_dataframe_schema_statistics" =>
          IF SchemaIncompatible(arg) THEN IsRaised(result)
          ELSE /\ ~IsRaised(result)
               /\ IsDict(result.columns)
               /\ Len(result.columns.items) = Len(arg.columns)
               /\ \A i \in 1..Len(arg.columns) :
                     /\ result.columns.items[i][1] = arg.columns[i][1]
                     /\ result.columns.items[i][2] =
                           [pandas_dtype |-> arg.columns[i][2]._pandas_dtype,
                            nullable |-> arg.columns[i][2].nullable,
                            checks |-> parse_checks(arg.columns[i][2].checks)]
               /\ IF arg.index = None THEN result.index = None
                  ELSE /\ IsList(result.index)
                       /\ Len(result.index.elems) = Len(IndexComponents(arg.index))
                       /\ \A i \in 1..Len(IndexComponents(arg.index)) :
                             result.index.elems[i]
                                = ComponentRecord(IndexComponents(arg.index)[i])
    /\ op = "get_series_schema_statistics" =>
          IF IsRaised(parse_checks(arg.checks)) THEN IsRaised(result)
          ELSE result = ComponentRecord(arg)

\* A schema of two different columns and a two-component index decomposed
\* into two column records and two index records.
SchemaDecompositionWitness ==
    /\ op = "get_dataframe_schema_statistics"
    /\ ~IsRaised(result)
    /\ Len(arg.columns) = 2
    /\ arg.columns[1][2] # arg.columns[2][2]
    /\ HasAttr(arg.index, "indexes")
    /\ Len(arg.index.indexes) = 2
    /\ arg.index.indexes[1] # arg.index.indexes[2]
    /\ Len(result.columns.items) = 2
    /\ Len(result.index.elems) = 2

\* C8: when several rules of a sequence map to the same statistic, the
\* value recorded for it is that of the last such rule, and the rule
\* remembered for it (for the error message) is that last rule.
LastRuleWins ==
    ParsedRules =>
        LET checks == arg.elems
            c == collect_checks(checks, Dict(<<>>), Dict(<<>>))
            last(stat) == LastOf(checks, KindOf(stat))
        IN
        /\ \A stat \in Recognized :
              IF last(stat) = 0
              THEN ~Has(c.check_statistics, stat) /\ ~Has(c._check_memo, stat)
              ELSE /\ Has(c.check_statistics, stat)
                   /\ Get(c.check_statistics, stat) = ParamOf(checks[last(stat)])
                   /\ Has(c._check_memo, stat)
                   /\ Get(c._check_memo, stat) = checks[last(stat)]
        /\ IsDict(result) =>
              \A stat \in Recognized :
                  last(stat) # 0 =>
                      /\ Has(result, stat)
                      /\ Get(result, stat) = ParamOf(checks[last(stat)])
        /\ IsRaised(result) =>
              /\ result.min_check = checks[last("min")]
              /\ result.max_check = checks[last("max")]
              /\ result.min_value = ParamOf(checks[last("min")])
              /\ result.max_value = ParamOf(checks[last("max")])

\* Two at-least rules with different bounds: the second one's bound came out.
LastRuleWinsWitness ==
    /\ ParsedRules
    /\ Len(arg.elems) >= 2
    /\ arg.elems[1] = greater_than_or_equal_to(1)
    /\ arg.elems[2] = greater_than_or_equal_to(0)
    /\ IsDict(result)
    /\ Get(result, "min") = 0

\* Equality of two outcomes of parse_checks: the same exception, None
\* twice, or equal mappings.
SameOutcome(r1, r2) ==
    /\ r1.t = r2.t
    /\ IF IsDict(r1) THEN DictEq(r1, r2) ELSE r1 = r2

\* C9: parse_checks ignores the rules whose kind the reverse table does not
\* hold: the outcome (mapping, None or error) is that of the subsequence of
\* registered rules; the mapping's keys are among min, max, levels; and a
\* sequence without a registered rule gives None.
UnregisteredIgnored ==
    ParsedRules =>
        LET registered ==
                SelectSeq(arg.elems, LAMBDA check : check.name \in Registered)
        IN
        /\ SameOutcome(result, parse_checks(List(registered)))
        /\ IsDict(result) => Keys(result) \subseteq Recognized
        /\ registered = <<>> => result = None

\* A sequence of an unregistered greater_than(1) and an at-least(0): min is 0.
UnregisteredIgnoredWitness ==
    /\ ParsedRules
    /\ arg.elems = <<greater_than_or_equal_to(0), greater_than(1)>>
    /\ IsDict(result)
    /\ result.items = << <<"min", 0>> >>

\* C10: the comparison min > max is made once, after the whole sequence, on
\* the last at-least bound and the last at-most bound: parse_checks raises
\* exactly when both exist and the former exceeds the latter, whatever the
\* earlier rules were.
FinalValuesCompared ==
    ParsedRules =>
        LET checks == arg.elems
            lo == LastOf(checks, "greater_than_or_equal_to")
            hi == LastOf(checks, "less_than_or_equal_to")
        IN
        IsRaised(result) <=>
            /\ lo # 0
            /\ hi # 0
            /\ checks[lo].statistics.min_value > checks[hi].statistics.max_value

Reverse(seq) == [i \in 1..Len(seq) |-> seq[Len(seq) + 1 - i]]

\* at-least(1), at-most(0), at-least(0): the first two are incompatible, yet
\* nothing is raised; the same rules in reverse order raise.
FinalValuesComparedWitness ==
    /\ ParsedRules
    /\ arg.elems = <<greater_than_or_equal_to(1), less_than_or_equal_to(0),
                     greater_than_or_equal_to(0)>>
    /\ IsDict(result)
    /\ Get(result, "min") = 0
    /\ Get(result, "max") = 0
    /\ IsRaised(parse_checks(List(Reverse(arg.elems))))

====
